---- MODULE Spec2Model ----
(***************************************************************************)
(* LegalEase chat server (src/server.js): the POST /chat handler, its      *)
(* per-session conversation stage machine and the helpers it uses.         *)
(*                                                                         *)
(* JavaScript strings the handler inspects or builds (messages, category   *)
(* names, replies, the legal summary) are sequences of one-character       *)
(* strings, so that toLowerCase, trim, includes, join, the \b...\b regular *)
(* expressions and string concatenation are computed, not assumed.         *)
(* Session identifiers, roles and emotion labels are only stored and       *)
(* compared, and are plain strings.                                        *)
(***************************************************************************)
EXTENDS Integers, Sequences, FiniteSets, TLC

VARIABLES
    sessions,   \* the session store: sessionId -> session
    req,        \* the handlers: slot -> the handler's position, locals and response
    arrived,    \* history: valid requests received so far
    irregular,  \* history: irregular events so far
    disturbed,  \* history: sessions that saw overlapping requests or a failed gateway call
    summaries   \* history: sessionId -> responses sent with a legalSummary

vars == <<sessions, req, arrived, irregular, disturbed, summaries>>

----------------------------------------------------------------------------
(* Bounds of the model *)

\* Valid (non-rejected) requests accepted over a run.
MaxRequests == 7

\* Irregular events over a run: a request that arrives while another handler
\* is suspended, a valid request without a sessionId, a gateway call that fails.
\* One more handler than that can be suspended at the same time.
MaxIrregular == 1

----------------------------------------------------------------------------
(* String primitives of the JavaScript runtime *)

UpperLetters ==
    <<"A","B","C","D","E","F","G","H","I","J","K","L","M","N","O","P","Q","R","S","T","U","V","W",
    "X","Y","Z">>

LowerLetters ==
    <<"a","b","c","d","e","f","g","h","i","j","k","l","m","n","o","p","q","r","s","t","u","v","w",
    "x","y","z">>

Digits ==
    <<"0","1","2","3","4","5","6","7","8","9">>

Range(s) == {s[i] : i \in DOMAIN s}

\* \w of a regular expression.
IsWordChar(c) == c \in Range(UpperLetters) \cup Range(LowerLetters) \cup Range(Digits) \cup {"_"}

WhiteSpace == {" ", "\n", "\t", "\r"}

LowerChar(c) ==
    IF \E i \in DOMAIN UpperLetters : UpperLetters[i] = c
    THEN LowerLetters[CHOOSE i \in DOMAIN UpperLetters : UpperLetters[i] = c]
    ELSE c

UpperChar(c) ==
    IF \E i \in DOMAIN LowerLetters : LowerLetters[i] = c
    THEN UpperLetters[CHOOSE i \in DOMAIN LowerLetters : LowerLetters[i] = c]
    ELSE c

\* String.prototype.toLowerCase
toLowerCase(s) == [i \in DOMAIN s |-> LowerChar(s[i])]

\* String.prototype.toUpperCase
toUpperCase(s) == [i \in DOMAIN s |-> UpperChar(s[i])]

\* String.prototype.includes
includes(s, sub) ==
    \E i \in 0..(Len(s) - Len(sub)) : SubSeq(s, i + 1, i + Len(sub)) = sub

\* String.prototype.trim
trim(s) ==
    LET keep == {i \in DOMAIN s : s[i] \notin WhiteSpace}
    IN  IF keep = {} THEN << >>
        ELSE LET first == CHOOSE i \in keep : \A j \in keep : i <= j
                 last  == CHOOSE i \in keep : \A j \in keep : j <= i
             IN  SubSeq(s, first, last)

\* Array.prototype.join
RECURSIVE join(_, _)
join(parts, sep) ==
    IF parts = << >> THEN << >>
    ELSE IF Len(parts) = 1 THEN parts[1]
    ELSE parts[1] \o sep \o join(Tail(parts), sep)

\* \b of a regular expression at the gap after the k-th character of s
\* (k = 0 is the start of the string): exactly one side is a word character.
WordBoundary(s, k) ==
    LET isW(j) == j \in DOMAIN s /\ IsWordChar(s[j])
    IN  isW(k) # isW(k + 1)

\* /\b(w1|w2|...)\b/.test(s)
TestWords(words, s) ==
    \E w \in words : \E i \in 0..(Len(s) - Len(w)) :
        /\ SubSeq(s, i + 1, i + Len(w)) = w
        /\ WordBoundary(s, i)
        /\ WordBoundary(s, i + Len(w))

----------------------------------------------------------------------------
(* Law data *)

harassment ==
    <<"h","a","r","a","s","s","m","e","n","t">>

domestic_violence ==
    <<"d","o","m","e","s","t","i","c","_","v","i","o","l","e","n","c","e">>

theft ==
    <<"t","h","e","f","t">>

fraud ==
    <<"f","r","a","u","d">>

cybercrime ==
    <<"c","y","b","e","r","c","r","i","m","e">>

general ==
    <<"g","e","n","e","r","a","l">>

Sec354 ==
    <<"3","5","4">>

Sec509 ==
    <<"5","0","9">>

lawHarassment ==
    [description |->
        <<"H","a","r","a","s","s","m","e","n","t"," ","i","s"," ","u","n","w","a","n","t","e","d"," ",
    "b","e","h","a","v","i","o","r"," ","c","a","u","s","i","n","g"," ","f","e","a","r",","," ",
    "d","i","s","c","o","m","f","o","r","t",","," ","o","r"," ","t","h","r","e","a","t",".">>,
     ipc_sections |-> <<Sec354, Sec509>>,
     steps |-> <<
        <<"D","o","c","u","m","e","n","t"," ","i","n","c","i","d","e","n","t","s"," ","(","p","h","o",
    "t","o","s",","," ","t","e","x","t","s",","," ","e","m","a","i","l","s",")",".">>,
        <<"T","e","l","l"," ","a"," ","t","r","u","s","t","e","d"," ","p","e","r","s","o","n"," ","o",
    "r"," ","r","e","l","a","t","i","v","e",".">>,
        <<"C","o","n","t","a","c","t"," ","l","o","c","a","l"," ","p","o","l","i","c","e"," ","o","r",
    " ","a"," ","w","o","m","e","n","'","s"," ","h","e","l","p","l","i","n","e",".">>,
        <<"F","i","l","e"," ","a"," ","F","i","r","s","t"," ","I","n","f","o","r","m","a","t","i","o",
    "n"," ","R","e","p","o","r","t"," ","(","F","I","R",")",".">> >>]

lawDomesticViolence ==
    [description |->
        <<"D","o","m","e","s","t","i","c"," ","v","i","o","l","e","n","c","e"," ","i","s"," ","a","b",
    "u","s","e"," ","b","y"," ","a"," ","f","a","m","i","l","y"," ","m","e","m","b","e","r"," ",
    "o","r"," ","s","p","o","u","s","e",","," ","p","h","y","s","i","c","a","l",","," ","e","m",
    "o","t","i","o","n","a","l",","," ","o","r"," ","f","i","n","a","n","c","i","a","l",".">>,
     ipc_sections |-> <<
        <<"4","9","8","A">>,
        <<"3","0","4","B">>,
        <<"P","r","o","t","e","c","t","i","o","n"," ","o","f"," ","W","o","m","e","n"," ","f","r","o",
    "m"," ","D","o","m","e","s","t","i","c"," ","V","i","o","l","e","n","c","e"," ","A","c","t",
    ","," ","2","0","0","5">> >>,
     steps |-> <<
        <<"S","e","e","k"," ","m","e","d","i","c","a","l"," ","a","t","t","e","n","t","i","o","n"," ",
    "i","f"," ","i","n","j","u","r","e","d",".">>,
        <<"A","p","p","r","o","a","c","h"," ","n","e","a","r","e","s","t"," ","p","o","l","i","c","e",
    " ","s","t","a","t","i","o","n"," ","o","r"," ","P","r","o","t","e","c","t","i","o","n"," ",
    "O","f","f","i","c","e","r",".">>,
        <<"F","i","l","e"," ","a"," ","D","o","m","e","s","t","i","c"," ","I","n","c","i","d","e","n",
    "t"," ","R","e","p","o","r","t"," ","(","D","I","R",")",".">>,
        <<"C","o","n","s","u","l","t"," ","a"," ","l","a","w","y","e","r"," ","f","o","r"," ","p","r",
    "o","t","e","c","t","i","o","n"," ","o","r","d","e","r","s",".">> >>]

lawTheft ==
    [description |->
        <<"T","h","e","f","t"," ","i","s"," ","t","a","k","i","n","g"," ","s","o","m","e","o","n","e",
    "'","s"," ","p","r","o","p","e","r","t","y"," ","w","i","t","h","o","u","t"," ","p","e","r",
    "m","i","s","s","i","o","n",".">>,
     ipc_sections |-> <<
        <<"3","7","8">>,
        <<"3","7","9">> >>,
     steps |-> <<
        <<"C","a","l","l"," ","p","o","l","i","c","e"," ","i","m","m","e","d","i","a","t","e","l","y",
    ".">>,
        <<"P","r","e","s","e","r","v","e"," ","e","v","i","d","e","n","c","e"," ","i","f"," ","p","o",
    "s","s","i","b","l","e",".">>,
        <<"F","i","l","e"," ","a"," ","f","o","r","m","a","l"," ","c","o","m","p","l","a","i","n","t",
    " ","(","F","I","R",")"," ","d","e","t","a","i","l","i","n","g"," ","s","t","o","l","e","n",
    " ","i","t","e","m","s",".">>,
        <<"R","e","p","o","r","t"," ","s","t","o","l","e","n"," ","d","o","c","u","m","e","n","t","s",
    " ","t","o"," ","i","s","s","u","i","n","g"," ","a","u","t","h","o","r","i","t","y",".">> >>]

lawFraud ==
    [description |->
        <<"F","r","a","u","d"," ","i","s"," ","c","h","e","a","t","i","n","g"," ","s","o","m","e","o",
    "n","e"," ","t","o"," ","t","a","k","e"," ","m","o","n","e","y"," ","o","r"," ","p","r","o",
    "p","e","r","t","y"," ","d","i","s","h","o","n","e","s","t","l","y",".">>,
     ipc_sections |-> <<
        <<"4","2","0">>,
        <<"4","0","6">> >>,
     steps |-> <<
        <<"C","o","l","l","e","c","t"," ","a","l","l"," ","p","r","o","o","f"," ","(","b","a","n","k",
    " ","s","t","a","t","e","m","e","n","t","s",","," ","e","m","a","i","l","s",","," ","t","r",
    "a","n","s","a","c","t","i","o","n","s",")",".">>,
        <<"I","n","f","o","r","m"," ","y","o","u","r"," ","b","a","n","k"," ","t","o"," ","f","r","e",
    "e","z","e"," ","a","c","c","o","u","n","t","s",".">>,
        <<"F","i","l","e"," ","a"," ","c","o","m","p","l","a","i","n","t"," ","w","i","t","h"," ","p",
    "o","l","i","c","e"," ","o","r"," ","E","O","W",".">>,
        <<"S","e","e","k"," ","l","e","g","a","l"," ","a","d","v","i","c","e"," ","t","o"," ","r","e",
    "c","o","v","e","r"," ","l","o","s","s","e","s",".">> >>]

lawCybercrime ==
    [description |->
        <<"C","y","b","e","r","c","r","i","m","e"," ","i","n","v","o","l","v","e","s"," ","h","a","c",
    "k","i","n","g",","," ","p","h","i","s","h","i","n","g",","," ","o","n","l","i","n","e"," ",
    "s","c","a","m","s",","," ","o","r"," ","a","b","u","s","e",".">>,
     ipc_sections |-> <<
        <<"6","6">>,
        <<"6","6","C">>,
        <<"6","6","D"," ","I","T"," ","A","c","t">> >>,
     steps |-> <<
        <<"T","a","k","e"," ","s","c","r","e","e","n","s","h","o","t","s"," ","a","n","d"," ","s","a",
    "v","e"," ","U","R","L","s",".">>,
        <<"D","o"," ","n","o","t"," ","d","e","l","e","t","e"," ","e","v","i","d","e","n","c","e",".">>,
        <<"R","e","p","o","r","t"," ","t","o"," ","N","a","t","i","o","n","a","l"," ","C","y","b","e",
    "r","c","r","i","m","e"," ","R","e","p","o","r","t","i","n","g"," ","P","o","r","t","a","l",
    ".">>,
        <<"F","i","l","e"," ","a"," ","c","o","m","p","l","a","i","n","t"," ","a","t"," ","p","o","l",
    "i","c","e","/","C","y","b","e","r"," ","C","e","l","l",".">> >>]

lawGeneral ==
    [description |->
        <<"G","e","n","e","r","a","l"," ","i","s","s","u","e","s","."," ","P","r","o","v","i","d","e",
    " ","d","e","t","a","i","l","s"," ","f","o","r"," ","a","c","c","u","r","a","t","e"," ","g",
    "u","i","d","a","n","c","e",".">>,
     ipc_sections |-> <<
        <<"I","P","C"," ","/"," ","R","e","l","e","v","a","n","t"," ","A","c","t","s"," ","d","e","t",
    "e","r","m","i","n","e","d"," ","b","y"," ","f","a","c","t","s",".">> >>,
     steps |-> <<
        <<"P","r","o","v","i","d","e"," ","s","p","e","c","i","f","i","c"," ","d","e","t","a","i","l",
    "s"," ","a","b","o","u","t"," ","y","o","u","r"," ","l","e","g","a","l"," ","i","s","s","u",
    "e"," ","(","w","h","a","t",","," ","w","h","e","n",","," ","w","h","e","r","e",")",".">> >>]

laws ==
    (harassment :> lawHarassment) @@ (domestic_violence :> lawDomesticViolence) @@
    (theft :> lawTheft) @@ (fraud :> lawFraud) @@ (cybercrime :> lawCybercrime) @@
    (general :> lawGeneral)

----------------------------------------------------------------------------
(* Issue classifier *)

HarassmentWords == {
    <<"h","a","r","a","s","s">>,
    <<"a","b","u","s","e">>,
    <<"m","o","l","e","s","t">>,
    <<"s","t","a","l","k">>,
    <<"e","v","e","-","t","e","a","s","i","n","g">> }

DomesticViolenceWords == {
    <<"h","u","s","b","a","n","d">>,
    <<"w","i","f","e">>,
    <<"h","o","m","e"," ","v","i","o","l","e","n","c","e">>,
    <<"b","e","a","t">>,
    <<"d","o","w","r","y">>,
    <<"i","n","-","l","a","w","s">> }

TheftWords == {
    <<"s","t","o","l","e","n">>,
    <<"r","o","b","b","e","d">>,
    <<"t","h","e","f","t">>,
    <<"s","n","a","t","c","h","e","d">> }

FraudWords == {
    <<"f","r","a","u","d">>,
    <<"c","h","e","a","t">>,
    <<"s","c","a","m">>,
    <<"m","o","n","e","y"," ","l","o","s","t">>,
    <<"p","h","o","n","e","y"," ","c","a","l","l">> }

CybercrimeWords == {
    <<"h","a","c","k">>,
    <<"f","a","k","e"," ","p","r","o","f","i","l","e">>,
    <<"p","h","i","s","h","i","n","g">>,
    <<"c","y","b","e","r">>,
    <<"o","n","l","i","n","e"," ","a","b","u","s","e">> }

\* Mutant of detectIssue: the domestic-violence test comes before the
\* harassment test.
detectIssueDomesticFirst(message) ==
    LET m == toLowerCase(message)
    IN  IF TestWords(DomesticViolenceWords, m) THEN domestic_violence
        ELSE IF TestWords(HarassmentWords, m) THEN harassment
        ELSE IF TestWords(TheftWords, m) THEN theft
        ELSE IF TestWords(FraudWords, m) THEN fraud
        ELSE IF TestWords(CybercrimeWords, m) THEN cybercrime
        ELSE general

detectIssue(message) ==
    LET m == toLowerCase(message)
    IN  IF TestWords(HarassmentWords, m) THEN harassment
        ELSE IF TestWords(DomesticViolenceWords, m) THEN domestic_violence
        ELSE IF TestWords(TheftWords, m) THEN theft
        ELSE IF TestWords(FraudWords, m) THEN fraud
        ELSE IF TestWords(CybercrimeWords, m) THEN cybercrime
        ELSE general

----------------------------------------------------------------------------
(* Fixed texts of the chat route *)

INCIDENT_QUESTIONS == <<
    <<"C","a","n"," ","y","o","u"," ","d","e","s","c","r","i","b","e"," ","e","x","a","c","t","l",
    "y"," ","w","h","a","t"," ","h","a","p","p","e","n","e","d","?">>,
    <<"W","h","e","r","e"," ","a","n","d"," ","w","h","e","n"," ","d","i","d"," ","t","h","i","s",
    " ","i","n","c","i","d","e","n","t"," ","o","c","c","u","r","?">>,
    <<"W","h","o"," ","w","a","s"," ","i","n","v","o","l","v","e","d"," ","i","n"," ","t","h","i",
    "s"," ","i","n","c","i","d","e","n","t","?">>,
    <<"D","o"," ","y","o","u"," ","h","a","v","e"," ","a","n","y"," ","e","v","i","d","e","n","c",
    "e"," ","(","p","h","o","t","o","s",","," ","m","e","s","s","a","g","e","s",","," ","e","m",
    "a","i","l","s",")","?">> >>

MessageRequired ==
    <<"M","e","s","s","a","g","e"," ","r","e","q","u","i","r","e","d">>

DetailRequest ==
    <<"\n","\n","C","o","u","l","d"," ","y","o","u"," ","p","l","e","a","s","e"," ","t","e","l","l",
    " ","m","e"," ","m","o","r","e"," ","a","b","o","u","t"," ","t","h","e"," ","i","n","c","i",
    "d","e","n","t"," ","i","n"," ","d","e","t","a","i","l","?">>

followUp ==
    <<"W","o","u","l","d"," ","y","o","u"," ","l","i","k","e"," ","t","o"," ","k","n","o","w"," ",
    "a","b","o","u","t"," ","p","r","e","v","i","o","u","s"," ","s","i","m","i","l","a","r"," ",
    "c","a","s","e","s"," ","a","n","d"," ","t","h","e","i","r"," ","o","u","t","c","o","m","e",
    "s","?">>

CaseHistoryDeclined ==
    <<"A","l","r","i","g","h","t",","," ","w","e"," ","c","a","n"," ","c","o","n","t","i","n","u",
    "e"," ","d","i","s","c","u","s","s","i","n","g"," ","y","o","u","r"," ","s","i","t","u","a",
    "t","i","o","n"," ","o","r"," ","a","n","y"," ","o","t","h","e","r"," ","q","u","e","r","i",
    "e","s"," ","y","o","u"," ","h","a","v","e",".">>

Yes ==
    <<"y","e","s">>

Space ==
    <<" ">>

CommaSpace ==
    <<","," ">>

BulletSep ==
    <<"\n","-"," ">>

ParagraphSep ==
    <<"\n","\n">>

\* The template literal of the legal summary block.
legalSummaryOf(detectedIssue) ==
    LET law == laws[detectedIssue]
    IN  <<"\n","*","*","A","p","p","l","i","c","a","b","l","e"," ","L","a","w"," ","(">>
        \o toUpperCase(detectedIssue) \o
        <<")",":","*","*"," ">>
        \o law.description \o
        <<"\n","*","*","R","e","l","e","v","a","n","t"," ","I","P","C"," ","S","e","c","t","i","o","n",
    "s",":","*","*"," ">>
        \o join(law.ipc_sections, CommaSpace) \o
        <<"\n","*","*","R","e","c","o","m","m","e","n","d","e","d"," ","S","t","e","p","s",":","*","*",
    "\n","-"," ">>
        \o join(law.steps, BulletSep) \o
        <<"\n">>

\* The instruction preamble of a Generation Gateway call: the fixed template
\* text is named by `template`; the interpolated parts are computed.
Preamble(template, session) ==
    [template |-> template,
     issue    |-> toUpperCase(session.detectedIssue),
     details  |-> IF template = "summary" THEN join(session.incidentDetails, Space) ELSE << >>]

\* The request handed to cohereClient.chat.
ChatCall(template, session, message, maxTokens) ==
    [preamble    |-> Preamble(template, session),
     message     |-> message,
     chatHistory |-> session.chat_history,
     maxTokens   |-> maxTokens]

NoChatCall == [preamble |-> [template |-> "none", issue |-> << >>, details |-> << >>],
               message |-> << >>, chatHistory |-> << >>, maxTokens |-> 0]

----------------------------------------------------------------------------
(* Inputs: request bodies and gateway outcomes *)

MsgStalked ==
    <<"I"," ","w","a","s"," ","s","t","a","l","k","e","d"," ","a","n","d"," ","h","a","r","a","s",
    "s","e","d"," ","a","t"," ","w","o","r","k">>

MsgYes ==
    <<"n","o",","," ","Y","E","S"," ","t","h","e","y"," ","s","t","a","l","k"," ","m","e">>

Messages == {MsgStalked, MsgYes}

\* An optional field of the JSON body is << >> when absent and <<v>> when present.
Bodies ==
    [message   : {<< >>} \cup {<<m>> : m \in Messages \cup {<< >>}},
     sessionId : {<< >>, <<"s1">>}]

SessionIds == {"default", "s1"}

\* Texts the Generation Gateway may return (response.text).
GenTexts == {
    <<" ","I"," ","h","e","a","r"," ","y","o","u",".","\n">> }

\* Labels the Emotion Gateway may return on success.
EmotionLabels == {"fear"}

EmotionOutcomes == [ok : {TRUE}, label : EmotionLabels] \cup [ok : {FALSE}, label : {"none"}]

----------------------------------------------------------------------------
(* Session store *)

Null == <<"null">>

User(message) == [role |-> "user", message |-> message]

Chatbot(message) == [role |-> "chatbot", message |-> message]

\* Mutant of NewSession: the default incidentDetails array is one object shared
\* by the sessions, so a new session starts with the details recorded so far.
NewSessionSharedDetails ==
    [chat_history        |-> << >>,
     stage               |-> 0,
     detectedIssue       |-> Null,
     incidentIndex       |-> 0,
     incidentDetails     |-> IF DOMAIN sessions = {} THEN << >>
                             ELSE sessions[CHOOSE s \in DOMAIN sessions : TRUE].incidentDetails,
     legalAdviceGiven    |-> FALSE,
     awaitingCaseHistory |-> FALSE]

NewSession ==
    [chat_history        |-> << >>,
     stage               |-> 0,
     detectedIssue       |-> Null,
     incidentIndex       |-> 0,
     incidentDetails     |-> << >>,
     legalAdviceGiven    |-> FALSE,
     awaitingCaseHistory |-> FALSE]

\* Mutant of GetOrCreate: the session is initialised without the existence test.
GetOrCreateResets(store, sessionId) ==
    [s \in DOMAIN store \cup {sessionId} |->
        IF s = sessionId THEN NewSession ELSE store[s]]

\* if (!sessions[sessionId]) sessions[sessionId] = {...}
GetOrCreate(store, sessionId) ==
    IF sessionId \in DOMAIN store THEN store
    ELSE [s \in DOMAIN store \cup {sessionId} |->
            IF s = sessionId THEN NewSession ELSE store[s]]

----------------------------------------------------------------------------
(* Request handlers *)

Slots == 1..(MaxIrregular + 1)

NoResponse == [status |-> 0, json |-> [pending |-> TRUE]]

\* pc: where the handler is; message, emotion, detectedIssue, text: its locals
\* (text is response.text of the Generation Gateway); res: the response written.
\* before: the session as the handler found it; stages: session.stage before and
\* after the stage machine's first segment; during: the earlier requests of the
\* session that were suspended at the Generation Gateway during that segment;
\* userTurn: the index in chat_history of the handler's user turn.
IdleReq ==
    [pc            |-> "idle",
     sessionId     |-> "none",
     message       |-> << >>,
     seq           |-> 0,
     emotion       |-> "none",
     emotionFailed |-> FALSE,
     emotionCalls  |-> 0,
     chatCalls     |-> 0,
     chat          |-> NoChatCall,
     text          |-> << >>,
     detectedIssue |-> Null,
     res           |-> NoResponse,
     \* history of the handler
     branch        |-> "none",
     before        |-> NewSession,
     stages        |-> << >>,
     overlapped    |-> FALSE,
     during        |-> {},
     userTurn      |-> 0]

InFlight(r) == req[r].pc \in {"emotion", "chat0", "chat1", "chatCase", "chatCont"}

\* A new request takes the lowest slot whose handler has returned.
FreeSlot(r) ==
    /\ ~InFlight(r)
    /\ \A q \in Slots : q < r => InFlight(q)

\* Mutant of HasMessage: only a missing message is rejected, not an empty one.
HasMessageField(body) == body.message # << >>

\* const { message, sessionId = "default" } = req.body; if (!message) ...
HasMessage(body) == body.message # << >> /\ body.message[1] # << >>

SessionIdOf(body) == IF body.sessionId = << >> THEN "default" ELSE body.sessionId[1]

\* Mutant of detectEmotion: no fallback label when the classifier throws.
detectEmotionNoFallback(outcome) == outcome.label

\* detectEmotion: the classifier's prediction, or the fallback when it throws.
detectEmotion(outcome) == IF outcome.ok THEN outcome.label ELSE "calm"

Json200(reply, emotion) == [status |-> 200, json |-> [reply |-> reply, emotion |-> emotion]]

Json200Summary(reply, legalSummary, emotion) ==
    [status |-> 200,
     json   |-> [reply |-> reply, legalSummary |-> legalSummary, emotion |-> emotion]]

Json400 == [status |-> 400, json |-> [error |-> MessageRequired]]

Init ==
    /\ sessions = << >>
    /\ req = [r \in Slots |-> IdleReq]
    /\ arrived = 0
    /\ irregular = 0
    /\ disturbed = {}
    /\ summaries = [s \in SessionIds |-> 0]

----------------------------------------------------------------------------
(* Effects of the handler's synchronous segments on the session *)

\* Mutant of Stage0Enter: the stage is not advanced before the gateway call.
Stage0EnterKeepsStage(session, message) ==
    [session EXCEPT !.detectedIssue = detectIssue(message)]

\* Mutant of Stage0Enter: the user turn is recorded before the gateway call.
Stage0EnterPushesUser(session, message) ==
    [session EXCEPT !.detectedIssue = detectIssue(message),
                    !.stage = 1,
                    !.chat_history = Append(@, User(message))]

\* Stage 0, up to the Generation Gateway call.
Stage0Enter(session, message) ==
    [session EXCEPT !.detectedIssue = detectIssue(message), !.stage = 1]

\* Stage 0, after the Generation Gateway call.
Stage0BotReply(text) == trim(text) \o DetailRequest

\* Mutant of PushTurns: the reply is recorded before the message it answers.
PushTurnsReplyFirst(session, message, botReply) ==
    [session EXCEPT !.chat_history = @ \o <<Chatbot(botReply), User(message)>>]

\* Mutant of PushTurns: only the user turn is recorded.
PushTurnsUserOnly(session, message, botReply) ==
    [session EXCEPT !.chat_history = Append(@, User(message))]

\* session.chat_history.push(user); session.chat_history.push(chatbot)
PushTurns(session, message, botReply) ==
    [session EXCEPT !.chat_history = @ \o <<User(message), Chatbot(botReply)>>]

\* Mutant of QuestionsLeft: the last question is never asked.
QuestionsLeftOffByOne(session) == session.incidentIndex < Len(INCIDENT_QUESTIONS) - 2

\* session.incidentIndex < INCIDENT_QUESTIONS.length - 1
QuestionsLeft(session) == session.incidentIndex < Len(INCIDENT_QUESTIONS) - 1

\* Mutant of Stage1Advance: the cursor is not advanced.
Stage1AdvanceKeepsIndex(session, message) ==
    [session EXCEPT !.incidentDetails = Append(@, message),
                    !.chat_history = @ \o <<User(message),
                                            Chatbot(INCIDENT_QUESTIONS[session.incidentIndex + 1])>>]

\* Mutant of Stage1Advance: every detail answer is classified again.
Stage1AdvanceReclassifies(session, message) ==
    [session EXCEPT !.detectedIssue = detectIssue(message),
                    !.incidentDetails = Append(@, message),
                    !.incidentIndex = @ + 1,
                    !.chat_history = @ \o <<User(message),
                                            Chatbot(INCIDENT_QUESTIONS[session.incidentIndex + 2])>>]

\* Stage 1, a question is left: record the answer and ask the next question.
Stage1Advance(session, message) ==
    LET incidentIndex == session.incidentIndex + 1
        nextQuestion  == INCIDENT_QUESTIONS[incidentIndex + 1]
    IN  [session EXCEPT !.incidentDetails = Append(@, message),
                        !.incidentIndex = incidentIndex,
                        !.chat_history = @ \o <<User(message), Chatbot(nextQuestion)>>]

\* Mutant of Stage1Complete: the stage is advanced only after the gateway call.
Stage1CompleteKeepsStage(session, message) ==
    [session EXCEPT !.incidentDetails = Append(@, message)]

\* Mutant of Stage1Complete: the cursor is advanced past the last question.
Stage1CompleteAdvancesIndex(session, message) ==
    [session EXCEPT !.incidentDetails = Append(@, message),
                    !.incidentIndex = @ + 1,
                    !.stage = 2]

\* Stage 1, last question answered, up to the Generation Gateway call.
Stage1Complete(session, message) ==
    [session EXCEPT !.incidentDetails = Append(@, message), !.stage = 2]

\* Stage 1, last question answered, after the Generation Gateway call.
Stage1Advise(session, message, botReply) ==
    [session EXCEPT !.chat_history = @ \o <<User(message), Chatbot(botReply), Chatbot(followUp)>>,
                    !.awaitingCaseHistory = TRUE]

\* Mutant of CaseHistoryAccept: the flag is not cleared before the gateway call.
CaseHistoryAcceptKeepsFlag(session) == session

\* Case history wanted, up to the Generation Gateway call.
CaseHistoryAccept(session) == [session EXCEPT !.awaitingCaseHistory = FALSE]

\* Case history not wanted.
CaseHistoryDecline(session, message) ==
    [session EXCEPT !.awaitingCaseHistory = FALSE,
                    !.chat_history = @ \o <<User(message), Chatbot(CaseHistoryDeclined)>>]

\* Mutant of SaidYes: the message is not lower-cased.
SaidYesCaseSensitive(message) == includes(message, Yes)

\* userReply.includes("yes")
SaidYes(message) == includes(toLowerCase(message), Yes)

----------------------------------------------------------------------------
(* The POST /chat handler, one action per segment between awaits *)

Suspended(q) == req[q].pc \in {"chat0", "chat1", "chatCase", "chatCont"}

\* Missing or empty message: 400, before anything else.
Reject(r, body) ==
    /\ FreeSlot(r)
    /\ ~HasMessage(body)
    /\ req' = [req EXCEPT ![r] = [IdleReq EXCEPT !.pc = "done",
                                                 !.sessionId = SessionIdOf(body),
                                                 !.res = Json400]]
    /\ UNCHANGED <<sessions, arrived, irregular, disturbed, summaries>>

\* Valid message: look the session up (creating it), start the Emotion Gateway
\* call. The records of the handlers that have returned are dropped.
Receive(r, body) ==
    /\ FreeSlot(r)
    /\ HasMessage(body)
    /\ arrived < MaxRequests
    /\ LET sessionId == SessionIdOf(body)
           store     == GetOrCreate(sessions, sessionId)
           others    == {q \in Slots \ {r} : InFlight(q) /\ req[q].sessionId = sessionId}
           cost      == (IF \E q \in Slots : InFlight(q) THEN 1 ELSE 0)
                        + (IF body.sessionId = << >> THEN 1 ELSE 0)
       IN  /\ irregular + cost <= MaxIrregular
           /\ irregular' = irregular + cost
           /\ sessions' = store
           /\ req' = [q \in Slots |->
                        IF q = r
                        THEN [IdleReq EXCEPT !.pc = "emotion",
                                             !.sessionId = sessionId,
                                             !.message = body.message[1],
                                             !.seq = arrived + 1,
                                             !.emotionCalls = 1,
                                             !.before = store[sessionId],
                                             !.overlapped = (others # {})]
                        ELSE IF q \in others THEN [req[q] EXCEPT !.overlapped = TRUE]
                        ELSE IF InFlight(q) THEN req[q]
                        ELSE IdleReq]
           /\ disturbed' = IF others # {} THEN disturbed \cup {sessionId} ELSE disturbed
    /\ arrived' = arrived + 1
    /\ UNCHANGED summaries

\* The handler r resumes from `await detectEmotion(message)`.
Resumes(r, outcome) ==
    /\ req[r].pc = "emotion"
    /\ outcome \in EmotionOutcomes
    /\ ~outcome.ok => irregular < MaxIrregular
    /\ irregular' = IF outcome.ok THEN irregular ELSE irregular + 1

\* The handler r after the stage machine's first segment, which leaves `session`.
Resumed(r, outcome, session) ==
    [req[r] EXCEPT !.emotion = detectEmotion(outcome),
                   !.emotionFailed = ~outcome.ok,
                   !.stages = <<sessions[req[r].sessionId].stage, session.stage>>,
                   !.during = {req[q].seq : q \in {q \in Slots \ {r} :
                                    Suspended(q) /\ req[q].sessionId = req[r].sessionId}}]

\* The handler suspends at cohereClient.chat with its local detectedIssue.
Calling(q, pc, branch, detectedIssue, call) ==
    [q EXCEPT !.pc = pc, !.branch = branch, !.detectedIssue = detectedIssue,
              !.chat = call, !.chatCalls = @ + 1]

\* The handler writes its response and returns.
Replied(q, branch, userTurn, res) ==
    [q EXCEPT !.pc = "done", !.branch = branch, !.userTurn = userTurn, !.res = res]

\* Stage 0: classify, move to stage 1, call the Generation Gateway.
Stage0(r, outcome) ==
    /\ Resumes(r, outcome)
    /\ LET sid     == req[r].sessionId
           message == req[r].message
           session == Stage0Enter(sessions[sid], message)
       IN  /\ sessions[sid].stage = 0
           /\ sessions' = [sessions EXCEPT ![sid] = session]
           /\ req' = [req EXCEPT ![r] =
                        Calling(Resumed(r, outcome, session), "chat0", "intake",
                                session.detectedIssue,
                                ChatCall("intake", session, message, 200))]
    /\ UNCHANGED <<arrived, disturbed, summaries>>

\* Stage 0 resumes from the Generation Gateway call.
Stage0Reply(r, text) ==
    /\ req[r].pc = "chat0"
    /\ text \in GenTexts
    /\ LET sid      == req[r].sessionId
           message  == req[r].message
           botReply == Stage0BotReply(text)
       IN  /\ sessions' = [sessions EXCEPT ![sid] = PushTurns(@, message, botReply)]
           /\ req' = [req EXCEPT ![r] =
                        Replied([@ EXCEPT !.text = text], "intake",
                                Len(sessions[sid].chat_history) + 1,
                                Json200(botReply, req[r].emotion))]
    /\ UNCHANGED <<arrived, irregular, disturbed, summaries>>

\* Stage 1 with a question left.
Stage1Next(r, outcome) ==
    /\ Resumes(r, outcome)
    /\ LET sid     == req[r].sessionId
           message == req[r].message
           session == Stage1Advance(sessions[sid], message)
       IN  /\ sessions[sid].stage = 1
           /\ QuestionsLeft(sessions[sid])
           /\ sessions' = [sessions EXCEPT ![sid] = session]
           /\ req' = [req EXCEPT ![r] =
                        Replied(Resumed(r, outcome, session), "detail",
                                Len(sessions[sid].chat_history) + 1,
                                Json200(INCIDENT_QUESTIONS[session.incidentIndex + 1],
                                        detectEmotion(outcome)))]
    /\ UNCHANGED <<arrived, disturbed, summaries>>

\* Stage 1 with the last question answered: move to stage 2, call the gateway.
Stage1Final(r, outcome) ==
    /\ Resumes(r, outcome)
    /\ LET sid     == req[r].sessionId
           message == req[r].message
           session == Stage1Complete(sessions[sid], message)
       IN  /\ sessions[sid].stage = 1
           /\ ~QuestionsLeft(sessions[sid])
           /\ sessions' = [sessions EXCEPT ![sid] = session]
           /\ req' = [req EXCEPT ![r] =
                        Calling(Resumed(r, outcome, session), "chat1", "final",
                                session.detectedIssue,
                                ChatCall("summary", session, message, 300))]
    /\ UNCHANGED <<arrived, disturbed, summaries>>

\* Stage 1 resumes from the Generation Gateway call: advice and legal summary.
Stage1FinalReply(r, text) ==
    /\ req[r].pc = "chat1"
    /\ text \in GenTexts
    /\ LET sid      == req[r].sessionId
           message  == req[r].message
           botReply == trim(text)
       IN  /\ sessions' = [sessions EXCEPT ![sid] = Stage1Advise(@, message, botReply)]
           /\ req' = [req EXCEPT ![r] =
                        Replied([@ EXCEPT !.text = text], "final",
                                Len(sessions[sid].chat_history) + 1,
                                Json200Summary(botReply \o ParagraphSep \o followUp,
                                               legalSummaryOf(req[r].detectedIssue),
                                               req[r].emotion))]
           /\ summaries' = [summaries EXCEPT ![sid] = @ + 1]
    /\ UNCHANGED <<arrived, irregular, disturbed>>

\* Awaiting the case-history choice and the message says yes: call the gateway.
CaseHistoryYes(r, outcome) ==
    /\ Resumes(r, outcome)
    /\ LET sid     == req[r].sessionId
           message == req[r].message
           session == CaseHistoryAccept(sessions[sid])
       IN  /\ sessions[sid].stage \notin {0, 1}
           /\ sessions[sid].awaitingCaseHistory
           /\ SaidYes(message)
           /\ sessions' = [sessions EXCEPT ![sid] = session]
           /\ req' = [req EXCEPT ![r] =
                        Calling(Resumed(r, outcome, session), "chatCase", "caseYes",
                                session.detectedIssue,
                                ChatCall("cases", session, message, 400))]
    /\ UNCHANGED <<arrived, disturbed, summaries>>

\* Awaiting the case-history choice and the message does not say yes.
CaseHistoryNo(r, outcome) ==
    /\ Resumes(r, outcome)
    /\ LET sid     == req[r].sessionId
           message == req[r].message
           session == CaseHistoryDecline(sessions[sid], message)
       IN  /\ sessions[sid].stage \notin {0, 1}
           /\ sessions[sid].awaitingCaseHistory
           /\ ~SaidYes(message)
           /\ sessions' = [sessions EXCEPT ![sid] = session]
           /\ req' = [req EXCEPT ![r] =
                        Replied(Resumed(r, outcome, session), "caseNo",
                                Len(sessions[sid].chat_history) + 1,
                                Json200(CaseHistoryDeclined, detectEmotion(outcome)))]
    /\ UNCHANGED <<arrived, disturbed, summaries>>

\* Advice already given, no choice pending: call the gateway.
Continue(r, outcome) ==
    /\ Resumes(r, outcome)
    /\ LET sid     == req[r].sessionId
           message == req[r].message
           session == sessions[sid]
       IN  /\ session.stage \notin {0, 1}
           /\ ~session.awaitingCaseHistory
           /\ req' = [req EXCEPT ![r] =
                        Calling(Resumed(r, outcome, session), "chatCont", "continue",
                                session.detectedIssue,
                                ChatCall("continue", session, message, 250))]
    /\ UNCHANGED <<sessions, arrived, disturbed, summaries>>

\* The case-history and continuation branches resume from the gateway call.
ChatReply(r, text) ==
    /\ req[r].pc \in {"chatCase", "chatCont"}
    /\ text \in GenTexts
    /\ LET sid      == req[r].sessionId
           message  == req[r].message
           botReply == trim(text)
       IN  /\ sessions' = [sessions EXCEPT ![sid] = PushTurns(@, message, botReply)]
           /\ req' = [req EXCEPT ![r] =
                        Replied([@ EXCEPT !.text = text], req[r].branch,
                                Len(sessions[sid].chat_history) + 1,
                                Json200(botReply, req[r].emotion))]
    /\ UNCHANGED <<arrived, irregular, disturbed, summaries>>

\* The Generation Gateway call throws: nothing catches it, the handler's
\* promise rejects and no response is written.
ChatThrows(r) ==
    /\ Suspended(r)
    /\ irregular < MaxIrregular
    /\ irregular' = irregular + 1
    /\ req' = [req EXCEPT ![r].pc = "error"]
    /\ disturbed' = disturbed \cup {req[r].sessionId}
    /\ UNCHANGED <<sessions, arrived, summaries>>

Next ==
    \E r \in Slots :
        \/ \E body \in Bodies : Reject(r, body)
        \/ \E body \in Bodies : Receive(r, body)
        \/ \E outcome \in EmotionOutcomes : Stage0(r, outcome)
        \/ \E outcome \in EmotionOutcomes : Stage1Next(r, outcome)
        \/ \E outcome \in EmotionOutcomes : Stage1Final(r, outcome)
        \/ \E outcome \in EmotionOutcomes : CaseHistoryYes(r, outcome)
        \/ \E outcome \in EmotionOutcomes : CaseHistoryNo(r, outcome)
        \/ \E outcome \in EmotionOutcomes : Continue(r, outcome)
        \/ \E text \in GenTexts : Stage0Reply(r, text)
        \/ \E text \in GenTexts : Stage1FinalReply(r, text)
        \/ \E text \in GenTexts : ChatReply(r, text)
        \/ ChatThrows(r)

Spec == Init /\ [][Next]_vars

----------------------------------------------------------------------------
(* Vocabulary of the properties *)

\* Number of predefined questions.
N == Len(INCIDENT_QUESTIONS)

\* The session fields the stage machine branches on.
Core(session) ==
    [stage               |-> session.stage,
     detectedIssue       |-> session.detectedIssue,
     incidentIndex       |-> session.incidentIndex,
     incidentDetails     |-> session.incidentDetails,
     awaitingCaseHistory |-> session.awaitingCaseHistory]

\* The messages of the user turns of a transcript, in order.
UserMessages(turns) ==
    LET users == SelectSeq(turns, LAMBDA t : t.role = "user")
    IN  [i \in DOMAIN users |-> users[i].message]

Answered(r) == req[r].pc = "done" /\ req[r].res.status = 200

HasSummary(r) == "legalSummary" \in DOMAIN req[r].res.json

\* No handler of the session is running and its requests so far came one at
\* a time with every Generation Gateway call succeeding.
SettledSession(s) ==
    /\ s \in DOMAIN sessions
    /\ s \notin disturbed
    /\ \A r \in Slots : InFlight(r) => req[r].sessionId # s

\* The handler r of session s has just taken its step out of pc `from`.
Steps(r, from) == req[r].pc = from /\ req'[r].pc # from

----------------------------------------------------------------------------
(* C1 *)

\* C1: a session driven one request at a time with every Generation Gateway
\* call succeeding is in COLLECTING_DETAILS after its first message and as long
\* as it has had at most N messages, its details being the messages after the
\* first; from the (N+1)th message on it is ADVISED with exactly the N detail
\* messages in order; and the response to the (N+1)th message carries a
\* non-empty legalSummary holding the category's description and its citation
\* list joined by ", ".
C1_AdvisedOnNthDetail ==
    \A s \in SessionIds : SettledSession(s) =>
        LET session == sessions[s]
            users   == UserMessages(session.chat_history)
            k       == Len(users)
        IN  /\ k >= 1
            /\ k <= N => /\ session.stage = 1
                         /\ session.incidentDetails = SubSeq(users, 2, k)
            /\ k > N  => /\ session.stage = 2
                         /\ session.incidentDetails = SubSeq(users, 2, N + 1)
                         /\ Len(session.incidentDetails) = N
            /\ \A r \in Slots : Answered(r) /\ req[r].sessionId = s =>
                 /\ HasSummary(r) <=> k = N + 1
                 /\ k = N + 1 =>
                      LET law     == laws[session.detectedIssue]
                          summary == req[r].res.json.legalSummary
                      IN  /\ summary # << >>
                          /\ includes(summary, law.description)
                          /\ includes(summary, join(law.ipc_sections, CommaSpace))

\* Session s1 has just been advised on its fifth message, about harassment.
C1_Witness ==
    /\ SettledSession("s1")
    /\ sessions["s1"].stage = 2
    /\ sessions["s1"].detectedIssue = harassment
    /\ Len(UserMessages(sessions["s1"].chat_history)) = N + 1
    /\ \E r \in Slots : Answered(r) /\ req[r].sessionId = "s1" /\ HasSummary(r)

----------------------------------------------------------------------------
(* C2 *)

\* The handler r found a fresh session, no other request of the session ran
\* beside it, and it has answered.
FirstCallAnswered(r) ==
    /\ Answered(r)
    /\ req[r].before = NewSession
    /\ ~req[r].overlapped

\* C2: after the first call on a fresh session has been answered, the session
\* is in stage 1 with incidentIndex 0, no details, the category
\* detectIssue(message), and the transcript (user, message), (chatbot, reply);
\* the reply is the trimmed generated text followed by the request for detail.
C2_FirstCall ==
    \A r \in Slots : FirstCallAnswered(r) =>
        LET session == sessions[req[r].sessionId]
            reply   == req[r].res.json.reply
        IN  /\ session.stage = 1
            /\ session.incidentIndex = 0
            /\ session.incidentDetails = << >>
            /\ session.detectedIssue = detectIssue(req[r].message)
            /\ ~session.awaitingCaseHistory
            /\ session.chat_history = <<User(req[r].message), Chatbot(reply)>>
            /\ reply = trim(req[r].text) \o DetailRequest
            /\ req[r].text \in GenTexts

\* A first call has been answered for a message classified as harassment.
C2_Witness ==
    \E r \in Slots :
        /\ FirstCallAnswered(r)
        /\ sessions[req[r].sessionId].detectedIssue = harassment

----------------------------------------------------------------------------
(* C3 *)

\* C3: when the first message of session s1 is "I was stalked and harassed at
\* work", the session's category is harassment, and the legalSummary returned
\* when it is advised contains "354" and "509".
C3_StalkedIsHarassment ==
    \A r \in Slots :
        /\ Answered(r)
        /\ req[r].sessionId = "s1"
        /\ "s1" \notin disturbed
        /\ sessions["s1"].chat_history # << >>
        /\ sessions["s1"].chat_history[1] = User(MsgStalked)
        => /\ sessions["s1"].detectedIssue = harassment
           /\ HasSummary(r) => /\ includes(req[r].res.json.legalSummary, Sec354)
                               /\ includes(req[r].res.json.legalSummary, Sec509)

----------------------------------------------------------------------------
(* C4 *)

\* C4: a handler that resumes in stage 1 with incidentIndex < N-1 appends its
\* message to incidentDetails, increases incidentIndex by exactly 1, answers
\* with the predefined question at the new incidentIndex, appends (user,
\* message) and (chatbot, that question) to the transcript, makes no
\* Generation Gateway call and leaves stage, detectedIssue and
\* awaitingCaseHistory unchanged.
C4_DetailStep ==
    [][\A r \in Slots :
         (Steps(r, "emotion")
            /\ sessions[req[r].sessionId].stage = 1
            /\ sessions[req[r].sessionId].incidentIndex < N - 1) =>
         LET session  == sessions[req[r].sessionId]
             after    == sessions'[req[r].sessionId]
             message  == req[r].message
             question == INCIDENT_QUESTIONS[after.incidentIndex + 1]
         IN  /\ after.incidentDetails = Append(session.incidentDetails, message)
             /\ after.incidentIndex = session.incidentIndex + 1
             /\ req'[r].pc = "done"
             /\ req'[r].res.status = 200
             /\ req'[r].res.json.reply = question
             /\ after.chat_history =
                    session.chat_history \o <<User(message), Chatbot(question)>>
             /\ req'[r].chatCalls = 0
             /\ after.stage = session.stage
             /\ after.detectedIssue = session.detectedIssue
             /\ after.awaitingCaseHistory = session.awaitingCaseHistory
      ]_vars

\* A detail answer has moved the cursor to the last question.
C4_Witness ==
    \E r \in Slots :
        /\ Answered(r)
        /\ req[r].stages = <<1, 1>>
        /\ sessions[req[r].sessionId].incidentIndex = N - 1
        /\ req[r].res.json.reply = INCIDENT_QUESTIONS[N]

----------------------------------------------------------------------------
(* C5 *)

\* C5: a 200 response contains legalSummary if and only if its handler moved
\* the session from stage 1 to stage 2, and no session is sent a legalSummary
\* more than once, whatever the interleaving of its requests.
C5_SummaryOnlyOnAdvise ==
    /\ \A r \in Slots : Answered(r) => (HasSummary(r) <=> req[r].stages = <<1, 2>>)
    /\ \A s \in SessionIds : summaries[s] <= 1

\* A legalSummary was returned to a request that overlapped with another
\* request of its session.
C5_Witness ==
    \E r \in Slots : Answered(r) /\ HasSummary(r) /\ req[r].overlapped

----------------------------------------------------------------------------
(* C6 *)

\* C6: a handler that resumes in stage 2 with awaitingCaseHistory set clears
\* the flag and changes no other field the stage machine branches on; when
\* the lower-cased message contains "yes" it calls the Generation Gateway once
\* with the case-examples preamble naming the session's category, and the
\* session keeps those fields when that call returns; otherwise it answers
\* with the fixed acknowledgment without a Generation Gateway call.
C6_CaseHistoryChoice ==
    [][\A r \in Slots :
         /\ (Steps(r, "emotion")
               /\ sessions[req[r].sessionId].stage = 2
               /\ sessions[req[r].sessionId].awaitingCaseHistory) =>
            LET session == sessions[req[r].sessionId]
                after   == sessions'[req[r].sessionId]
                message == req[r].message
            IN  /\ Core(after) = [Core(session) EXCEPT !.awaitingCaseHistory = FALSE]
                /\ IF includes(toLowerCase(message), Yes)
                   THEN /\ req'[r].pc = "chatCase"
                        /\ req'[r].chatCalls = 1
                        /\ req'[r].chat.preamble.template = "cases"
                        /\ req'[r].chat.preamble.issue = toUpperCase(session.detectedIssue)
                        /\ req'[r].chat.message = message
                        /\ after.chat_history = session.chat_history
                   ELSE /\ req'[r].pc = "done"
                        /\ req'[r].res.status = 200
                        /\ req'[r].res.json.reply = CaseHistoryDeclined
                        /\ req'[r].chatCalls = 0
         /\ Steps(r, "chatCase") =>
                /\ Core(sessions'[req[r].sessionId]) = Core(sessions[req[r].sessionId])
                /\ req'[r].chatCalls = 1
      ]_vars

\* The case-history call has been answered for a message saying yes among
\* other words, and the session is still in stage 2 with the flag cleared.
C6_Witness ==
    \E r \in Slots :
        /\ Answered(r)
        /\ req[r].branch = "caseYes"
        /\ req[r].message # Yes
        /\ sessions[req[r].sessionId].stage = 2
        /\ ~sessions[req[r].sessionId].awaitingCaseHistory

----------------------------------------------------------------------------
(* C7 *)

MessageMissing(body) == body.message = << >> \/ body.message = << << >> >>

\* C7: a request whose message is missing or empty is answered with status 400
\* and the error "Message required", creates no session, changes no session
\* and no other handler, and calls neither gateway.
C7_RejectHasNoEffect ==
    [][\A r \in Slots : \A body \in Bodies :
         (MessageMissing(body) /\ (Reject(r, body) \/ Receive(r, body))) =>
             /\ req'[r].pc = "done"
             /\ req'[r].res = [status |-> 400, json |-> [error |-> MessageRequired]]
             /\ sessions' = sessions
             /\ req'[r].emotionCalls = 0
             /\ req'[r].chatCalls = 0
             /\ \A q \in Slots \ {r} : req'[q] = req[q]
      ]_vars

\* A request without message and sessionId was rejected while session s1 was
\* collecting details, and no default session exists.
C7_Witness ==
    \E r \in Slots :
        /\ req[r].res.status = 400
        /\ req[r].sessionId = "default"
        /\ "default" \notin DOMAIN sessions
        /\ "s1" \in DOMAIN sessions
        /\ sessions["s1"].stage = 1

----------------------------------------------------------------------------
(* C8 *)

\* C8: when the Generation Gateway call of a handler has failed, and no other
\* request of the session ran beside it, the session's stage, incidentIndex,
\* incidentDetails, detectedIssue and awaitingCaseHistory are as the handler
\* found them.
C8_FailureKeepsSession ==
    \A r \in Slots :
        (req[r].pc = "error" /\ ~req[r].overlapped) =>
            Core(sessions[req[r].sessionId]) = Core(req[r].before)

----------------------------------------------------------------------------
(* C9 *)

\* The session the stage machine's first segment leaves, by the transition
\* table; the position it leaves the handler in; the reply when it answers.
StageEffect(session, message) ==
    IF session.stage = 0 THEN Stage0Enter(session, message)
    ELSE IF session.stage = 1
         THEN IF QuestionsLeft(session) THEN Stage1Advance(session, message)
              ELSE Stage1Complete(session, message)
    ELSE IF session.awaitingCaseHistory
         THEN IF SaidYes(message) THEN CaseHistoryAccept(session)
              ELSE CaseHistoryDecline(session, message)
    ELSE session

StagePc(session, message) ==
    IF session.stage = 0 THEN "chat0"
    ELSE IF session.stage = 1 THEN IF QuestionsLeft(session) THEN "done" ELSE "chat1"
    ELSE IF session.awaitingCaseHistory THEN IF SaidYes(message) THEN "chatCase" ELSE "done"
    ELSE "chatCont"

StageReply(session, message) ==
    IF session.stage = 1 THEN INCIDENT_QUESTIONS[session.incidentIndex + 2]
    ELSE CaseHistoryDeclined

\* C9: every handler of a valid message has called the Emotion Gateway exactly
\* once, and has done so before the stage machine read the session; a failed
\* call yields the label "calm"; every 200 response carries the handler's
\* emotion; and what the stage machine does on resuming (the session it leaves,
\* the Generation Gateway call it makes, the reply it gives) is determined by
\* the session and the message alone, whether the Emotion Gateway failed or not.
C9_EmotionOncePerMessage ==
    /\ [](\A r \in Slots :
            /\ (req[r].pc # "idle" /\ req[r].res.status # 400) => req[r].emotionCalls = 1
            /\ req[r].pc = "emotion" => req[r].stages = << >> /\ req[r].chatCalls = 0
            /\ req[r].emotionFailed => req[r].emotion = "calm"
            /\ Answered(r) => /\ "emotion" \in DOMAIN req[r].res.json
                              /\ req[r].res.json.emotion = req[r].emotion
                              /\ req[r].emotion \in EmotionLabels \cup {"calm"})
    /\ [][\A r \in Slots : Steps(r, "emotion") =>
            LET session == sessions[req[r].sessionId]
                message == req[r].message
                pc      == StagePc(session, message)
            IN  /\ sessions' = [sessions EXCEPT ![req[r].sessionId] =
                                    StageEffect(session, message)]
                /\ req'[r].pc = pc
                /\ req'[r].chatCalls = (IF pc = "done" THEN 0 ELSE 1)
                /\ pc = "done" => /\ req'[r].res.status = 200
                                  /\ req'[r].res.json.reply = StageReply(session, message)
                /\ pc # "done" => req'[r].res = NoResponse
                /\ req'[r].emotionCalls = 1
       ]_vars

\* A detail answer was answered with the fallback emotion after the Emotion
\* Gateway failed.
C9_Witness ==
    \E r \in Slots :
        /\ Answered(r)
        /\ req[r].emotionFailed
        /\ req[r].res.json.emotion = "calm"
        /\ req[r].stages = <<1, 1>>

----------------------------------------------------------------------------
(* C10 *)

\* The exchange of the answered handler r stands in the transcript at its
\* user turn.
ExchangeAt(r) ==
    LET turns == sessions[req[r].sessionId].chat_history
        i     == req[r].userTurn
    IN  /\ i + 1 \in DOMAIN turns
        /\ turns[i] = User(req[r].message)
        /\ turns[i + 1].role = "chatbot"

\* C10: when a request p is suspended at the Generation Gateway while a later
\* request q of the same session is processed as a detail answer, then once
\* both are answered the transcript holds q's exchange before p's, although p
\* arrived first, and q's message is among the details.
C10_OverlapReordersTranscript ==
    \A p, q \in Slots :
        (/\ Answered(p) /\ Answered(q)
         /\ req[p].sessionId = req[q].sessionId
         /\ req[p].seq < req[q].seq
         /\ req[p].seq \in req[q].during
         /\ req[q].stages = <<1, 1>>) =>
            /\ ExchangeAt(p)
            /\ ExchangeAt(q)
            /\ req[q].userTurn < req[p].userTurn
            /\ req[q].message \in Range(sessions[req[q].sessionId].incidentDetails)

\* The first message of a session was answered after the second: the second
\* was recorded as the first detail answer and its turns precede the first's.
C10_Witness ==
    \E p, q \in Slots :
        /\ Answered(p) /\ Answered(q)
        /\ req[p].sessionId = req[q].sessionId
        /\ req[p].seq < req[q].seq
        /\ req[p].stages = <<0, 1>>
        /\ req[q].stages = <<1, 1>>
        /\ req[p].message # req[q].message
        /\ LET session == sessions[req[p].sessionId]
           IN  /\ Len(session.chat_history) = 4
               /\ session.chat_history[1] = User(req[q].message)
               /\ session.chat_history[3] = User(req[p].message)
               /\ session.incidentDetails = <<req[q].message>>
               /\ session.incidentIndex = 1

----------------------------------------------------------------------------
(* The issue classifier on its own: detectIssue applied to composed messages *)

\* Words a classified message is composed of, at most.
MaxWords == 3

WordStalk ==
    <<"S","t","a","l","k">>

WordHusband ==
    <<"h","u","s","b","a","n","d">>

WordStolen ==
    <<"S","T","O","L","E","N">>

WordScam ==
    <<"s","c","a","m">>

WordHack ==
    <<"h","a","c","k">>

WordOnlineAbuse ==
    <<"o","n","l","i","n","e"," ","a","b","u","s","e">>

WordStalked ==
    <<"s","t","a","l","k","e","d">>

WordAt ==
    <<"a","t">>

\* A word of each vocabulary (in mixed case), a two-word entry of the
\* cybercrime vocabulary that ends in a harassment word, an inflected form and
\* a word of no vocabulary.
ClassifierWords ==
    {WordStalk, WordHusband, WordStolen, WordScam, WordHack, WordOnlineAbuse, WordStalked, WordAt}

RECURSIVE WordSeqs(_)
WordSeqs(n) ==
    IF n = 0 THEN {<< >>}
    ELSE LET shorter == WordSeqs(n - 1)
         IN  shorter \cup {Append(ws, w) : ws \in {x \in shorter : Len(x) = n - 1},
                                            w \in ClassifierWords}

\* The messages handed to detectIssue: one to MaxWords words joined by spaces.
ClassifierInputs == {join(ws, Space) : ws \in WordSeqs(MaxWords) \ {<< >>}}

\* Handler 1 holds a message that has not been classified.
ClassifyInit ==
    /\ \E m \in ClassifierInputs :
          req = [r \in Slots |-> IF r = 1 THEN [IdleReq EXCEPT !.message = m] ELSE IdleReq]
    /\ sessions = << >>
    /\ arrived = 0
    /\ irregular = 0
    /\ disturbed = {}
    /\ summaries = [s \in SessionIds |-> 0]

\* const detectedIssue = detectIssue(message)
Classify(r) ==
    /\ req[r].pc = "idle"
    /\ req[r].message # << >>
    /\ req' = [req EXCEPT ![r].pc = "classified",
                          ![r].detectedIssue = detectIssue(req[r].message)]
    /\ UNCHANGED <<sessions, arrived, irregular, disturbed, summaries>>

ClassifyNext == \E r \in Slots : Classify(r)

ClassifySpec == ClassifyInit /\ [][ClassifyNext]_vars

----------------------------------------------------------------------------
(* C11 *)

\* The categories with a vocabulary, in the order of precedence.
Precedence == <<harassment, domestic_violence, theft, fraud, cybercrime>>

Vocabulary(category) ==
    IF category = harassment THEN HarassmentWords
    ELSE IF category = domestic_violence THEN DomesticViolenceWords
    ELSE IF category = theft THEN TheftWords
    ELSE IF category = fraud THEN FraudWords
    ELSE CybercrimeWords

\* The positions in Precedence of the categories whose vocabulary has a
\* whole-word occurrence in the lower-cased message.
Matching(message) ==
    {i \in DOMAIN Precedence : TestWords(Vocabulary(Precedence[i]), toLowerCase(message))}

Classified(r) == req[r].pc = "classified"

\* C11: the category of every classified message is the first category, in
\* the order harassment, domestic_violence, theft, fraud, cybercrime, whose
\* vocabulary matches the lower-cased message, and general when none matches;
\* a message matching the harassment vocabulary is classified harassment
\* whatever else it matches; and the category has an entry in laws.
C11_FirstMatchWins ==
    \A r \in Slots : Classified(r) =>
        LET message  == req[r].message
            category == req[r].detectedIssue
            hits     == Matching(message)
        IN  /\ hits = {} => category = general
            /\ hits # {} => /\ category \in Range(Precedence)
                            /\ \A i \in DOMAIN Precedence :
                                  Precedence[i] = category <=>
                                      (i \in hits /\ \A j \in hits : i <= j)
            /\ TestWords(HarassmentWords, toLowerCase(message)) => category = harassment
            /\ category \in DOMAIN laws
            /\ laws[category].ipc_sections # << >>

\* A message with words of the theft, domestic-violence and harassment
\* vocabularies, in that order and in mixed case, was classified harassment.
C11_Witness ==
    \E r \in Slots :
        /\ Classified(r)
        /\ req[r].message = join(<<WordStolen, WordHusband, WordStalk>>, Space)
        /\ Matching(req[r].message) = {1, 2, 3}
        /\ req[r].detectedIssue = harassment

----------------------------------------------------------------------------
(* Replay: session "default" is fed the messages session s1 was fed *)

\* Messages fed to session s1 in a replay.
MaxReplay == 7

\* The messages of the requests session s has answered.
Processed(s) ==
    IF s \in DOMAIN sessions THEN UserMessages(sessions[s].chat_history) ELSE << >>

\* A valid request arrives while no handler is running. A request without
\* sessionId carries the message session s1 processed at the same position.
ReplayReceive(r, body) ==
    /\ FreeSlot(r)
    /\ HasMessage(body)
    /\ LET sessionId == SessionIdOf(body)
           message   == body.message[1]
           store     == GetOrCreate(sessions, sessionId)
           fed       == Len(Processed(sessionId))
       IN  /\ \A q \in Slots : ~InFlight(q)
           /\ IF body.sessionId # << >> THEN fed < MaxReplay
              ELSE /\ fed < Len(Processed("s1"))
                   /\ message = Processed("s1")[fed + 1]
           /\ sessions' = store
           /\ req' = [q \in Slots |->
                        IF q = r
                        THEN [IdleReq EXCEPT !.pc = "emotion",
                                             !.sessionId = sessionId,
                                             !.message = message,
                                             !.seq = arrived + 1,
                                             !.emotionCalls = 1,
                                             !.before = store[sessionId]]
                        ELSE IF InFlight(q) THEN req[q]
                        ELSE IdleReq]
    /\ arrived' = arrived + 1
    /\ UNCHANGED <<irregular, disturbed, summaries>>

ReplayNext ==
    \E r \in Slots :
        \/ \E body \in Bodies : ReplayReceive(r, body)
        \/ \E outcome \in EmotionOutcomes : Stage0(r, outcome)
        \/ \E outcome \in EmotionOutcomes : Stage1Next(r, outcome)
        \/ \E outcome \in EmotionOutcomes : Stage1Final(r, outcome)
        \/ \E outcome \in EmotionOutcomes : CaseHistoryYes(r, outcome)
        \/ \E outcome \in EmotionOutcomes : CaseHistoryNo(r, outcome)
        \/ \E outcome \in EmotionOutcomes : Continue(r, outcome)
        \/ \E text \in GenTexts : Stage0Reply(r, text)
        \/ \E text \in GenTexts : Stage1FinalReply(r, text)
        \/ \E text \in GenTexts : ChatReply(r, text)

ReplaySpec == Init /\ [][ReplayNext]_vars

----------------------------------------------------------------------------
(* C12 *)

\* How far session s has been driven: the messages it has answered and the
\* position and message of its running handler, if any.
Position(s) ==
    <<Processed(s),
      {<<req[r].pc, req[r].message>> : r \in {q \in Slots : InFlight(q) /\ req[q].sessionId = s}}>>

\* Every user turn of a transcript is directly followed by a chatbot turn.
Paired(turns) ==
    \A i \in DOMAIN turns :
        turns[i].role = "user" => (i + 1 \in DOMAIN turns /\ turns[i + 1].role = "chatbot")

\* C12: two sessions that have been fed the same messages one at a time, and
\* stand at the same point of the same request, hold the same stage,
\* incidentIndex, incidentDetails, awaitingCaseHistory and detectedIssue and
\* the same transcript; and every answered request extends the transcript at
\* its end by the user turn of its message followed by the chatbot turns of
\* the response, so that the transcript lists the exchanges in the order the
\* messages were processed.
C12_ReplayDeterminism ==
    /\ [](\A a, b \in DOMAIN sessions :
            Position(a) = Position(b) =>
                /\ Core(sessions[a]) = Core(sessions[b])
                /\ sessions[a].chat_history = sessions[b].chat_history)
    /\ [][\A r \in Slots :
            (req[r].pc # "done" /\ req'[r].pc = "done" /\ req'[r].res.status = 200) =>
                LET turns == sessions[req'[r].sessionId].chat_history
                    after == sessions'[req'[r].sessionId].chat_history
                IN  /\ Len(after) > Len(turns)
                    /\ SubSeq(after, 1, Len(turns)) = turns
                    /\ after[Len(turns) + 1] = User(req'[r].message)
                    /\ UserMessages(after) = Append(UserMessages(turns), req'[r].message)
                    /\ Paired(after)
       ]_vars

\* Both sessions have answered the same seven messages, not all alike, and
\* have been through the case-history choice and a continuation.
C12_Witness ==
    /\ DOMAIN sessions = {"s1", "default"}
    /\ SettledSession("s1")
    /\ SettledSession("default")
    /\ Len(Processed("s1")) = MaxReplay
    /\ Processed("default") = Processed("s1")
    /\ Range(Processed("s1")) = Messages
    /\ sessions["s1"].stage = 2
    /\ sessions["default"].chat_history = sessions["s1"].chat_history
    /\ ~sessions["default"].awaitingCaseHistory

----------------------------------------------------------------------------
(* C13 *)

\* C13: in every reachable state, under every interleaving, a session's
\* detectedIssue is unset exactly while its stage is 0; it changes only in the
\* step of a handler that finds the session in stage 0 and moves it to stage
\* 1, which sets it to the category of that handler's message; and once set
\* it never changes.
C13_CategoryAssignedOnce ==
    /\ [](\A s \in DOMAIN sessions : sessions[s].detectedIssue = Null <=> sessions[s].stage = 0)
    /\ [][\A s \in DOMAIN sessions :
            LET session == sessions[s]
                after   == sessions'[s]
            IN  /\ session.detectedIssue # Null => after.detectedIssue = session.detectedIssue
                /\ after.detectedIssue # session.detectedIssue =>
                      \E r \in Slots :
                          /\ req[r].sessionId = s
                          /\ Steps(r, "emotion")
                          /\ session.stage = 0
                          /\ after.stage = 1
                          /\ after.detectedIssue = detectIssue(req[r].message)
                          /\ after.detectedIssue \in DOMAIN laws
       ]_vars

\* Session s1, which saw overlapping requests, has been advised under the
\* category general although a later message of it names harassment.
C13_Witness ==
    /\ "s1" \in DOMAIN sessions
    /\ \E r \in Slots : req[r].sessionId = "s1" /\ req[r].overlapped
    /\ sessions["s1"].stage = 2
    /\ sessions["s1"].detectedIssue = general
    /\ \E i \in DOMAIN sessions["s1"].incidentDetails :
          detectIssue(sessions["s1"].incidentDetails[i]) = harassment

----------------------------------------------------------------------------
(* C14 *)

\* C14: legalAdviceGiven is false as long as no legal summary has been
\* returned for the session, and true in every state after the request that
\* returned the legal summary has completed.
C14_AdviceGivenAfterSummary ==
    \A s \in DOMAIN sessions :
        /\ summaries[s] = 0 => ~sessions[s].legalAdviceGiven
        /\ summaries[s] > 0 => sessions[s].legalAdviceGiven

----------------------------------------------------------------------------
(* C15 *)

\* C15: in every reachable state, under every interleaving, a session in
\* stage 1 has as many incidentDetails as its incidentIndex, which lies in
\* 0..N-1; a session in stage 2 has incidentIndex N-1 and N incidentDetails;
\* and neither incidentIndex nor the stage ever decreases.
C15_DetailCursor ==
    /\ [](\A s \in DOMAIN sessions :
            LET session == sessions[s]
            IN  /\ session.stage = 1 =>
                      /\ Len(session.incidentDetails) = session.incidentIndex
                      /\ 0 <= session.incidentIndex
                      /\ session.incidentIndex <= N - 1
                /\ session.stage = 2 =>
                      /\ session.incidentIndex = N - 1
                      /\ Len(session.incidentDetails) = N)
    /\ [][\A s \in DOMAIN sessions :
            /\ sessions'[s].incidentIndex >= sessions[s].incidentIndex
            /\ sessions'[s].stage >= sessions[s].stage
       ]_vars

\* A request that overlapped with another of its session has answered the
\* last question and moved the session to stage 2.
C15_Witness ==
    \E r \in Slots :
        /\ req[r].overlapped
        /\ req[r].stages = <<1, 2>>
        /\ sessions[req[r].sessionId].stage = 2
        /\ sessions[req[r].sessionId].incidentIndex = N - 1
        /\ Len(sessions[req[r].sessionId].incidentDetails) = N

----------------------------------------------------------------------------
(* C16 *)

\* C16: awaitingCaseHistory is set only in stage 2; it becomes true only in
\* the step that completes the request returning the legal summary, the first
\* such response of the session; a handler that resumes while the flag is set
\* clears it in that step, whatever its message; the flag is still clear when
\* the Generation Gateway call of the case-history branch returns or fails;
\* so with requests one at a time the message after the advice clears the
\* flag and it is never set again.
C16_FlagClearedByNextMessage ==
    /\ [](\A s \in DOMAIN sessions : sessions[s].awaitingCaseHistory => sessions[s].stage = 2)
    /\ [][\A s \in DOMAIN sessions :
            LET session == sessions[s]
                after   == sessions'[s]
            IN  /\ (~session.awaitingCaseHistory /\ after.awaitingCaseHistory) =>
                      /\ \E r \in Slots :
                            /\ req[r].sessionId = s
                            /\ req[r].pc = "chat1"
                            /\ req'[r].pc = "done"
                            /\ "legalSummary" \in DOMAIN req'[r].res.json
                      /\ summaries[s] = 0
                      /\ summaries'[s] = 1
                /\ \A r \in Slots :
                      (req[r].sessionId = s /\ Steps(r, "emotion")
                         /\ session.awaitingCaseHistory) =>
                          /\ ~after.awaitingCaseHistory
                          /\ req'[r].pc \in {"chatCase", "done"}
                /\ \A r \in Slots :
                      (req[r].sessionId = s /\ Steps(r, "chatCase")) =>
                          /\ req'[r].pc \in {"done", "error"}
                          /\ ~session.awaitingCaseHistory
                          /\ ~after.awaitingCaseHistory
       ]_vars

\* The message after the advice said yes, its Generation Gateway call failed,
\* and the flag is clear; the requests of the session came one at a time.
C16_Witness ==
    \E r \in Slots :
        /\ req[r].pc = "error"
        /\ req[r].branch = "caseYes"
        /\ ~req[r].overlapped
        /\ req[r].before.awaitingCaseHistory
        /\ summaries[req[r].sessionId] = 1
        /\ sessions[req[r].sessionId].stage = 2
        /\ ~sessions[req[r].sessionId].awaitingCaseHistory

----------------------------------------------------------------------------
(* C17 *)

\* The handler r has answered with status 200 and no other request of its
\* session ran beside it.
AnsweredAlone(r) == Answered(r) /\ ~req[r].overlapped

\* The turns the session of the answered handler r has gained since r found it.
Appended(r) ==
    LET turns == sessions[req[r].sessionId].chat_history
    IN  SubSeq(turns, Len(req[r].before.chat_history) + 1, Len(turns))

\* The texts of the turns of a transcript.
Texts(turns) == [i \in DOMAIN turns |-> turns[i].message]

\* C17 as stated: every answered request has appended exactly one user turn
\* holding the message followed by exactly one assistant turn whose text is
\* the reply returned.
C17_OneAssistantTurnIsReply ==
    \A r \in Slots : AnsweredAlone(r) =>
        sessions[req[r].sessionId].chat_history =
            req[r].before.chat_history
                \o <<User(req[r].message), Chatbot(req[r].res.json.reply)>>

\* C17 as amended: the step in which a handler answers with status 200
\* appends to the transcript, under every interleaving, exactly one user turn
\* holding the message followed by the assistant turns of the response, whose
\* texts joined by a blank line are the reply returned: one assistant turn in
\* every branch but the one returning the legal summary, which appends two,
\* the trimmed generated text and then the case-history question.
C17_AssistantTurnsCarryReply ==
    [][\A r \in Slots :
         (req[r].pc # "done" /\ req'[r].pc = "done" /\ req'[r].res.status = 200) =>
             LET turns     == sessions[req'[r].sessionId].chat_history
                 after     == sessions'[req'[r].sessionId].chat_history
                 appended  == SubSeq(after, Len(turns) + 1, Len(after))
                 assistant == Tail(appended)
                 reply     == req'[r].res.json.reply
                 summary   == "legalSummary" \in DOMAIN req'[r].res.json
             IN  /\ after = turns \o appended
                 /\ Len(appended) = (IF summary THEN 3 ELSE 2)
                 /\ appended[1] = User(req'[r].message)
                 /\ \A i \in DOMAIN assistant : assistant[i].role = "chatbot"
                 /\ join(Texts(assistant), ParagraphSep) = reply
                 /\ summary => /\ assistant[1].message = trim(req'[r].text)
                               /\ assistant[2].message = followUp
                               /\ reply = trim(req'[r].text) \o ParagraphSep \o followUp
                 /\ req'[r].chatCalls = 1 => req'[r].text \in GenTexts
      ]_vars

\* The request answering the last question has been answered alone: three
\* turns were appended and the reply is neither of the two assistant turns.
C17_Witness ==
    \E r \in Slots :
        /\ AnsweredAlone(r)
        /\ HasSummary(r)
        /\ Len(Appended(r)) = 3
        /\ Appended(r)[2].message # req[r].res.json.reply
        /\ Appended(r)[3].message # req[r].res.json.reply

----------------------------------------------------------------------------
(* C18 *)

\* C18: a handler that suspends at the Generation Gateway has appended no
\* turn on the way there, the failure of the call changes no session, and so
\* the transcript of a session whose request failed alone is the transcript
\* the request found.
C18_FailureAppendsNoTurn ==
    /\ [](\A r \in Slots :
            (req[r].pc = "error" /\ ~req[r].overlapped) =>
                /\ req[r].branch \in {"intake", "final", "caseYes", "continue"}
                /\ sessions[req[r].sessionId].chat_history = req[r].before.chat_history)
    /\ [][\A r \in Slots :
            /\ (Steps(r, "emotion") /\ Suspended(r)') =>
                  sessions'[req[r].sessionId].chat_history =
                      sessions[req[r].sessionId].chat_history
            /\ (Suspended(r) /\ req'[r].pc = "error") => sessions' = sessions
       ]_vars

\* The Generation Gateway call of the request answering the last question
\* failed: the transcript still ends with the last question.
C18_Witness ==
    \E r \in Slots :
        /\ req[r].pc = "error"
        /\ req[r].branch = "final"
        /\ ~req[r].overlapped
        /\ LET turns == sessions[req[r].sessionId].chat_history
           IN  /\ Len(turns) = 2 * N
               /\ turns[Len(turns)] = Chatbot(INCIDENT_QUESTIONS[N])
               /\ turns = req[r].before.chat_history

----------------------------------------------------------------------------
(* Two sessions side by side: requests of different sessions overlap *)

\* The Emotion Gateway calls that return a label.
EmotionSuccesses == {outcome \in EmotionOutcomes : outcome.ok}

\* A valid request arrives while no other request of its session is running;
\* a handler of the other session may be suspended at a gateway.
SideBySideReceive(r, body) ==
    /\ FreeSlot(r)
    /\ HasMessage(body)
    /\ arrived < MaxRequests
    /\ LET sessionId == SessionIdOf(body)
           store     == GetOrCreate(sessions, sessionId)
       IN  /\ \A q \in Slots : InFlight(q) => req[q].sessionId # sessionId
           /\ sessions' = store
           /\ req' = [q \in Slots |->
                        IF q = r
                        THEN [IdleReq EXCEPT !.pc = "emotion",
                                             !.sessionId = sessionId,
                                             !.message = body.message[1],
                                             !.seq = arrived + 1,
                                             !.emotionCalls = 1,
                                             !.before = store[sessionId]]
                        ELSE IF InFlight(q) THEN req[q]
                        ELSE IdleReq]
    /\ arrived' = arrived + 1
    /\ UNCHANGED <<irregular, disturbed, summaries>>

SideBySideNext ==
    \E r \in Slots :
        \/ \E body \in Bodies : SideBySideReceive(r, body)
        \/ \E outcome \in EmotionSuccesses : Stage0(r, outcome)
        \/ \E outcome \in EmotionSuccesses : Stage1Next(r, outcome)
        \/ \E outcome \in EmotionSuccesses : Stage1Final(r, outcome)
        \/ \E outcome \in EmotionSuccesses : CaseHistoryYes(r, outcome)
        \/ \E outcome \in EmotionSuccesses : CaseHistoryNo(r, outcome)
        \/ \E outcome \in EmotionSuccesses : Continue(r, outcome)
        \/ \E text \in GenTexts : Stage0Reply(r, text)
        \/ \E text \in GenTexts : Stage1FinalReply(r, text)
        \/ \E text \in GenTexts : ChatReply(r, text)

SideBySideSpec == Init /\ [][SideBySideNext]_vars

----------------------------------------------------------------------------
(* C19 *)

\* The handler r takes up a valid request in this step.
TakesUp(r) == req'[r].pc = "emotion" /\ req'[r].seq = arrived + 1 /\ arrived' = arrived + 1

\* C19: no step removes a session; a valid request for session A, "default"
\* when the body has no sessionId, leaves the store as it is when A exists,
\* and otherwise adds A with stage 0, no category, cursor 0, no details, no
\* turns and both flags false, leaving every other session as it is; and a
\* session changes only in a step of a running handler of that session, so
\* that no handler of A changes a session B # A, whatever the interleaving.
C19_SessionsIsolated ==
    [][/\ DOMAIN sessions \subseteq DOMAIN sessions'
       /\ \A r \in Slots : \A body \in Bodies :
             (SideBySideReceive(r, body) \/ Receive(r, body)) =>
                 /\ TakesUp(r)
                 /\ req'[r].sessionId =
                        (IF "sessionId" \in DOMAIN body /\ body.sessionId # << >>
                         THEN body.sessionId[1] ELSE "default")
       /\ \A r \in Slots : TakesUp(r) =>
             LET A == req'[r].sessionId
             IN  /\ A \in DOMAIN sessions => sessions' = sessions
                 /\ A \notin DOMAIN sessions =>
                       /\ DOMAIN sessions' = DOMAIN sessions \cup {A}
                       /\ sessions'[A] = [chat_history        |-> << >>,
                                          stage               |-> 0,
                                          detectedIssue       |-> Null,
                                          incidentIndex       |-> 0,
                                          incidentDetails     |-> << >>,
                                          legalAdviceGiven    |-> FALSE,
                                          awaitingCaseHistory |-> FALSE]
                       /\ \A B \in DOMAIN sessions : sessions'[B] = sessions[B]
       /\ \A B \in DOMAIN sessions :
             sessions'[B] # sessions[B] =>
                 \E r \in Slots : /\ req[r].sessionId = B
                                  /\ InFlight(r)
                                  /\ req'[r].pc # req[r].pc
      ]_vars

\* While a handler of session s1 is suspended at the Generation Gateway in the
\* final branch, session "default" has been created and its first request is
\* suspended at the Generation Gateway too.
C19_Witness ==
    \E p, q \in Slots :
        /\ req[p].sessionId = "s1"
        /\ req[p].pc = "chat1"
        /\ req[q].sessionId = "default"
        /\ req[q].pc = "chat0"
        /\ sessions["s1"].stage = 2
        /\ sessions["default"].stage = 1
        /\ sessions["default"].chat_history = << >>

====
